---- MODULE Spec2Model ----
(***************************************************************************)
(* A model of the capture pipeline of onn_ota_captor.py: the reader loop  *)
(* of OtaCaptor.start, the two worker threads that share one queue, the    *)
(* dedup set, the two sinks, the one-shot latch and the cmd_oneshot        *)
(* workflow.  Text is modelled as sequences of one-character strings, so   *)
(* that the regular expressions and the strip/split calls are computed     *)
(* the way the code computes them.                                         *)
(***************************************************************************)
EXTENDS Integers, Sequences, FiniteSets, TLC

(* ------------------------------------------------------------------ *)
(* Bounds                                                               *)
(* ------------------------------------------------------------------ *)

\* How many lines the external process emits at most in one run.
MaxLines == 2

(* ------------------------------------------------------------------ *)
(* Text                                                                 *)
(* ------------------------------------------------------------------ *)

\* \s of the re module, restricted to the characters the inputs use.
Whitespace == {" ", "\n", "\t", "\r"}

\* [A-Fa-f0-9]
HexDigits ==
    {"0", "1", "2", "3", "4", "5", "6", "7", "8", "9",
     "A", "B", "C", "D", "E", "F", "a", "b", "c", "d", "e", "f"}

\* The characters sanitize_url strips from both ends: ]'"
StrayChars == {"]", "'", "\""}

\* s[i:] starts with p (1-based i).
StartsWithAt(s, i, p) ==
    /\ i >= 1
    /\ i + Len(p) - 1 <= Len(s)
    /\ SubSeq(s, i, i + Len(p) - 1) = p

\* str.endswith
EndsWith(s, p) ==
    /\ Len(p) <= Len(s)
    /\ SubSeq(s, Len(s) - Len(p) + 1, Len(s)) = p

RECURSIVE RunEnd(_, _, _)
\* Index of the last character of the longest run of characters of set C that
\* starts at i; i - 1 when the run is empty.
RunEnd(s, i, C) ==
    IF i <= Len(s) /\ s[i] \in C THEN RunEnd(s, i + 1, C) ELSE i - 1

RECURSIVE LStrip(_, _)
LStrip(s, C) ==
    IF s # <<>> /\ Head(s) \in C THEN LStrip(Tail(s), C) ELSE s

RECURSIVE RStrip(_, _)
RStrip(s, C) ==
    IF s # <<>> /\ s[Len(s)] \in C THEN RStrip(SubSeq(s, 1, Len(s) - 1), C) ELSE s

\* str.strip(chars)
Strip(s, C) == RStrip(LStrip(s, C), C)

\* The literal pieces of the two regular expressions.
LitHttp     == <<"h", "t", "t", "p", ":", "/", "/">>
LitHttps    == <<"h", "t", "t", "p", "s", ":", "/", "/">>
LitPackage  == <<"/", "p", "a", "c", "k", "a", "g", "e", "/">>
LitOtaApi   == <<"p", "a", "c", "k", "a", "g", "e", "s", "/", "o", "t", "a", "-", "a", "p", "i">>
LitPayload  == <<"p", "a", "y", "l", "o", "a", "d", ".">>
LitBin      == <<"b", "i", "n">>
LitZip      == <<"z", "i", "p">>
LitDotZip   == <<".", "z", "i", "p">>
LitOtaPfx   == <<"o", "t", "a", "_">>
LitUpdate   == <<"u", "p", "d", "a", "t", "e", ".", "z", "i", "p">>

\* [A-Fa-f0-9]+\.zip at i: index of the last character matched, 0 if no match.
\* The greedy run must be followed by a dot, which is no hex digit, so only the
\* longest run can match.
HexZipEnd(s, i) ==
    LET e == RunEnd(s, i, HexDigits)
    IN  IF e >= i /\ StartsWithAt(s, e + 1, LitDotZip) THEN e + Len(LitDotZip) ELSE 0

\* (?:packages/ota-api/package/[A-Fa-f0-9]+\.zip|payload\.(?:bin|zip)) at k:
\* index of the last character matched, 0 if no match.
AltEnd(s, k) ==
    IF StartsWithAt(s, k, LitOtaApi \o LitPackage)
        /\ HexZipEnd(s, k + Len(LitOtaApi) + Len(LitPackage)) # 0
    THEN HexZipEnd(s, k + Len(LitOtaApi) + Len(LitPackage))
    ELSE IF StartsWithAt(s, k, LitPayload)
            /\ (\/ StartsWithAt(s, k + Len(LitPayload), LitBin)
                \/ StartsWithAt(s, k + Len(LitPayload), LitZip))
         THEN k + Len(LitPayload) + 2
         ELSE 0

RECURSIVE LazyBodyEnd(_, _)
\* [^\s\]]*? followed by the alternation, from k: the lazy star tries the
\* alternation first and consumes one more character only when that fails.
LazyBodyEnd(s, k) ==
    IF k > Len(s) THEN 0
    ELSE IF AltEnd(s, k) # 0 THEN AltEnd(s, k)
    ELSE IF s[k] \in Whitespace \cup {"]"} THEN 0
    ELSE LazyBodyEnd(s, k + 1)

\* (?:\?[^\s\]]*)? after a body that ends at e: greedy, nothing follows it.
QueryEnd(s, e) ==
    IF e + 1 <= Len(s) /\ s[e + 1] = "?"
    THEN RunEnd(s, e + 2, {s[j] : j \in 1..Len(s)} \ (Whitespace \cup {"]"}))
    ELSE e

\* URL_REGEX anchored at i: index of the last character matched, 0 if no match.
UrlMatchEnd(s, i) ==
    LET b == IF StartsWithAt(s, i, LitHttps) THEN i + Len(LitHttps)
             ELSE IF StartsWithAt(s, i, LitHttp) THEN i + Len(LitHttp)
             ELSE 0
        e == IF b = 0 THEN 0 ELSE LazyBodyEnd(s, b)
    IN  IF e = 0 THEN 0 ELSE QueryEnd(s, e)

RECURSIVE FindIterFrom(_, _)
FindIterFrom(s, i) ==
    IF i > Len(s) THEN <<>>
    ELSE IF UrlMatchEnd(s, i) # 0
         THEN <<SubSeq(s, i, UrlMatchEnd(s, i))>> \o FindIterFrom(s, UrlMatchEnd(s, i) + 1)
         ELSE FindIterFrom(s, i + 1)

\* [m.group(1) for m in URL_REGEX.finditer(line)]
URL_REGEX(s) == FindIterFrom(s, 1)

\* u.strip().strip("]'\"")
sanitize_url(u) == Strip(Strip(u, Whitespace), StrayChars)

\* $ of the re module: the end of the string, or just before a final newline.
AtDollar(s, i) == i = Len(s) + 1 \/ (i = Len(s) /\ s[i] = "\n")

RECURSIVE PackageSearch(_, _)
\* re.search(r'/package/([A-Fa-f0-9]+)\.zip(?:\?|$)', url) from i: group(1) of
\* the leftmost match, <<>> when there is none.
PackageSearch(s, i) ==
    IF i > Len(s) THEN <<>>
    ELSE LET h == i + Len(LitPackage)
             e == IF StartsWithAt(s, i, LitPackage) THEN HexZipEnd(s, h) ELSE 0
         IN  IF e # 0 /\ (AtDollar(s, e + 1) \/ StartsWithAt(s, e + 1, <<"?">>))
             THEN SubSeq(s, h, e - Len(LitDotZip))
             ELSE PackageSearch(s, i + 1)

RECURSIVE LastSegment(_)
\* s.split('/')[-1]
LastSegment(s) ==
    IF s = <<>> \/ s[Len(s)] = "/" THEN <<>>
    ELSE LastSegment(SubSeq(s, 1, Len(s) - 1)) \o <<s[Len(s)]>>

friendly_name_from_url(url) ==
    LET hash == PackageSearch(url, 1)
        seg  == LastSegment(RStrip(url, {"/"}))
        tail == IF seg = <<>> THEN LitUpdate ELSE seg
    IN  IF hash # <<>> THEN LitOtaPfx \o hash \o LitDotZip
        ELSE IF EndsWith(tail, LitDotZip) THEN tail ELSE LitUpdate

(* ------------------------------------------------------------------ *)
(* Inputs                                                               *)
(* ------------------------------------------------------------------ *)

UrlBin  == LitHttp \o <<"h", "/">> \o LitPayload \o LitBin
UrlZipQ == LitHttp \o <<"h", "/">> \o LitPayload \o LitZip \o <<"?", "k">>

\* The decoded lines the external process can emit (line 223 has decoded them):
\* a line without a URL, a line with one URL in brackets, and a line that holds
\* one URL twice (once inside quotes, so that the raw matches differ by a stray
\* quote).
LineTexts ==
    << <<"b", "o", "o", "t", "\n">>,
       <<"[">> \o UrlBin \o <<"]", "\n">>,
       <<"'">> \o UrlZipQ \o <<"'", " ">> \o UrlZipQ \o <<"\n">> >>

LineIds == 1..Len(LineTexts)

\* Command lines of oneshot: --auto-download or not, --timeout (type=int) not
\* positive or positive.
OneshotArgs ==
    {[auto_download |-> FALSE, timeout |-> 0], [auto_download |-> TRUE, timeout |-> 2]}

\* The fallback of line 290.
DefaultTimeout == 300

(* ------------------------------------------------------------------ *)
(* State                                                                *)
(* ------------------------------------------------------------------ *)

VARIABLES
    cmd,            \* the entry point: "capture", "oneshot", or "api" (a caller's own OtaCaptor)
    args,           \* the parsed command line: [auto_download, timeout]
    auto_download,  \* OtaCaptor.auto_download
    on_new_url,     \* OtaCaptor.on_new_url: "None", "controller" or "callable"
    proc,           \* OtaCaptor.proc: "None", "running", "terminating" (SIGTERM sent), "exited"
    stopEv,         \* OtaCaptor._stop
    queue,          \* OtaCaptor._queue
    seen,           \* OtaCaptor._seen
    log_file,       \* content of the raw sink
    url_file,       \* content of the matches sink
    first_url,      \* OneShotController.first_url (<<>> is None)
    hit_event,      \* OneShotController.hit_event
    sPc,            \* position of the thread that runs start()
    wPc,            \* position of _writer_thread
    wLine,          \* _writer_thread: the line just dequeued (0 once written)
    pPc,            \* position of _parser_thread
    pLine,          \* _parser_thread: the line being scanned (0 between lines)
    pMatches,       \* _parser_thread: the matches of finditer not yet visited
    pUrl,           \* _parser_thread: url
    mPc,            \* position of the main thread
    timeout,        \* cmd_oneshot: timeout
    waitResult,     \* cmd_oneshot: what hit_event.wait returned ("hit", "timeout"), "none" before
    readLines,      \* history: the lines readline returned, in order
    notified,       \* history: the urls the new-match callback was invoked with, in order
    raised,         \* history: the urls whose callback invocation raised
    fetches,        \* history: the download_with_progress calls, in order
    past            \* history: the urls that earlier sessions of the same caller recorded

vars ==
    <<cmd, args, auto_download, on_new_url, proc, stopEv, queue, seen, log_file,
      url_file, first_url, hit_event, sPc, wPc, wLine, pPc, pLine, pMatches,
      pUrl, mPc, timeout, waitResult, readLines, notified, raised, fetches, past>>

config     == <<cmd, args, auto_download, on_new_url, past>>
readerVars == <<sPc, readLines>>
writerVars == <<wPc, wLine>>
parserVars == <<pPc, pLine, pMatches, pUrl>>
latchVars  == <<first_url, hit_event>>
mainVars   == <<mPc, timeout, waitResult>>

\* OtaCaptor.__init__: self._seen = set(), whatever an earlier session holds.
FreshSeenShared(old) == old

FreshSeen(old) == {}

\* cmd_capture (264-266), cmd_oneshot (283-287) and a direct use of the class
\* with a callback of the caller's; in each, start() has just been entered.
Init ==
    /\ \/ /\ cmd = "capture"
          /\ args \in [auto_download : BOOLEAN, timeout : {DefaultTimeout}]
          /\ auto_download = args.auto_download
          /\ on_new_url = "None"
          /\ mPc = "in_start"
       \/ /\ cmd = "oneshot"
          /\ args \in OneshotArgs
          /\ auto_download = FALSE
          /\ on_new_url = "controller"
          /\ mPc = "probe"
       \/ /\ cmd = "api"
          /\ args = [auto_download |-> FALSE, timeout |-> DefaultTimeout]
          /\ auto_download \in BOOLEAN
          /\ on_new_url = "callable"
          /\ mPc = "in_start"
    /\ proc = "None"
    /\ stopEv = FALSE
    /\ queue = <<>>
    /\ seen = FreshSeen({})
    /\ log_file = <<>>
    /\ url_file = <<>>
    /\ first_url = <<>>
    /\ hit_event = FALSE
    /\ sPc = "setup"
    /\ wPc = "unstarted"
    /\ wLine = 0
    /\ pPc = "unstarted"
    /\ pLine = 0
    /\ pMatches = <<>>
    /\ pUrl = <<>>
    /\ timeout = 0
    /\ waitResult = "none"
    /\ readLines = <<>>
    /\ notified = <<>>
    /\ raised = {}
    /\ fetches = <<>>
    /\ past = {}

\* The interpreter is still running: daemon threads stop when the main thread
\* has returned and the interpreter exits.
Alive == mPc # "exited"

\* Popen.poll() is None
PollIsNone == proc \in {"running", "terminating"}

(* ------------------------------------------------------------------ *)
(* OtaCaptor.stop                                                       *)
(* ------------------------------------------------------------------ *)

\* A stop() that terminates the process and leaves the flag alone.
StopFlagKept(flag) == flag

\* A stop() that flips the flag instead of setting it.
StopFlagToggled(flag) == ~flag

\* Line 232: the value of the stop flag after stop().
StopFlagAfterStop(flag) == TRUE

\* Line 234: what terminate() does to the process, when stop() calls it.
ProcAfterStop(p) == IF p \in {"running", "terminating"} THEN "terminating" ELSE p

\* Lines 231-235: stop()
stop ==
    /\ stopEv' = StopFlagAfterStop(stopEv)
    /\ proc' = ProcAfterStop(proc)


(* ------------------------------------------------------------------ *)
(* The external process                                                 *)
(* ------------------------------------------------------------------ *)

\* The process exits by itself (the device disconnects, adb dies).
ProcQuits ==
    /\ proc = "running"
    /\ proc' = "exited"
    /\ UNCHANGED <<config, stopEv, queue, seen, log_file, url_file, latchVars,
                   readerVars, writerVars, parserVars, mainVars, notified, raised,
                   fetches>>

\* The process dies of the SIGTERM that terminate() sent.
ProcDies ==
    /\ proc = "terminating"
    /\ proc' = "exited"
    /\ UNCHANGED <<config, stopEv, queue, seen, log_file, url_file, latchVars,
                   readerVars, writerVars, parserVars, mainVars, notified, raised,
                   fetches>>

(* ------------------------------------------------------------------ *)
(* OtaCaptor.start                                                      *)
(* ------------------------------------------------------------------ *)

\* Lines 209-212: the setup commands, then Popen.
StartPopen ==
    /\ Alive /\ sPc = "setup"
    /\ proc' = "running"
    /\ sPc' = "spawn"
    /\ UNCHANGED <<config, stopEv, queue, seen, log_file, url_file, latchVars,
                   readLines, writerVars, parserVars, mainVars, notified, raised,
                   fetches>>

\* Lines 214-215: the two threads are started; each opens its sink and reaches
\* its loop test.
StartThreads ==
    /\ Alive /\ sPc = "spawn"
    /\ wPc' = "loop"
    /\ pPc' = "loop"
    /\ sPc' = "poll"
    /\ UNCHANGED <<config, proc, stopEv, queue, seen, log_file, url_file, latchVars,
                   readLines, wLine, pLine, pMatches, pUrl, mainVars, notified,
                   raised, fetches>>

\* Line 220: while self.proc.poll() is None
ReaderPoll ==
    /\ Alive /\ sPc = "poll"
    /\ sPc' = IF PollIsNone THEN "readline" ELSE "finally"
    /\ UNCHANGED <<config, proc, stopEv, queue, seen, log_file, url_file, latchVars,
                   readLines, writerVars, parserVars, mainVars, notified, raised,
                   fetches>>

\* Lines 221-225: readline returns a line, which is decoded and put on the queue.
ReaderReadline ==
    /\ Alive /\ sPc = "readline"
    /\ PollIsNone
    /\ Len(readLines) < MaxLines
    /\ \E id \in LineIds :
        /\ readLines' = Append(readLines, id)
        /\ queue' = Append(queue, id)
    /\ sPc' = "poll"
    /\ UNCHANGED <<config, proc, stopEv, seen, log_file, url_file, latchVars,
                   writerVars, parserVars, mainVars, notified, raised, fetches>>

\* Lines 221-222: readline returns b'' once the process is gone; break.
ReaderEof ==
    /\ Alive /\ sPc = "readline"
    /\ proc = "exited"
    /\ sPc' = "finally"
    /\ UNCHANGED <<config, proc, stopEv, queue, seen, log_file, url_file, latchVars,
                   readLines, writerVars, parserVars, mainVars, notified, raised,
                   fetches>>

\* Lines 226-227: Ctrl+C reaches the main thread inside the try block.
ReaderInterrupt ==
    /\ Alive /\ cmd \in {"capture", "api"}
    /\ sPc \in {"poll", "readline"}
    /\ sPc' = "finally"
    /\ UNCHANGED <<config, proc, stopEv, queue, seen, log_file, url_file, latchVars,
                   readLines, writerVars, parserVars, mainVars, notified, raised,
                   fetches>>

\* Lines 228-229: finally: self.stop(); start() returns.
ReaderFinally ==
    /\ Alive /\ sPc = "finally"
    /\ stop
    /\ sPc' = "done"
    /\ UNCHANGED <<config, queue, seen, log_file, url_file, latchVars, readLines,
                   writerVars, parserVars, mainVars, notified, raised, fetches>>

(* ------------------------------------------------------------------ *)
(* OtaCaptor._writer_thread                                             *)
(* ------------------------------------------------------------------ *)

\* A writer whose loop does not test the stop flag.
WriterLoopNoTest ==
    /\ Alive /\ wPc = "loop"
    /\ wPc' = "get"
    /\ UNCHANGED <<config, proc, stopEv, queue, seen, log_file, url_file, latchVars,
                   readerVars, wLine, parserVars, mainVars, notified, raised, fetches>>

\* Line 239: while not self._stop.is_set()
WriterLoop ==
    /\ Alive /\ wPc = "loop"
    /\ wPc' = IF stopEv THEN "exit" ELSE "get"
    /\ UNCHANGED <<config, proc, stopEv, queue, seen, log_file, url_file, latchVars,
                   readerVars, wLine, parserVars, mainVars, notified, raised, fetches>>

\* Line 240: get returns the head of the queue.
WriterGet ==
    /\ Alive /\ wPc = "get"
    /\ queue # <<>>
    /\ wLine' = Head(queue)
    /\ queue' = Tail(queue)
    /\ wPc' = "write"
    /\ UNCHANGED <<config, proc, stopEv, seen, log_file, url_file, latchVars,
                   readerVars, parserVars, mainVars, notified, raised, fetches>>

\* Lines 240-241: get times out on an empty queue; continue.
WriterEmpty ==
    /\ Alive /\ wPc = "get"
    /\ queue = <<>>
    /\ wPc' = "loop"
    /\ UNCHANGED <<config, proc, stopEv, queue, seen, log_file, url_file, latchVars,
                   readerVars, wLine, parserVars, mainVars, notified, raised, fetches>>

\* Line 242: f.write(line); f.flush()
WriterWrite ==
    /\ Alive /\ wPc = "write"
    /\ log_file' = Append(log_file, wLine)
    /\ wLine' = 0
    /\ wPc' = "loop"
    /\ UNCHANGED <<config, proc, stopEv, queue, seen, url_file, latchVars, readerVars,
                   parserVars, mainVars, notified, raised, fetches>>

\* Line 242 raises OSError (disk full): nothing catches it, the thread ends.
WriterWriteFails ==
    /\ Alive /\ wPc = "write"
    /\ wPc' = "failed"
    /\ UNCHANGED <<config, proc, stopEv, queue, seen, log_file, url_file, latchVars,
                   readerVars, wLine, parserVars, mainVars, notified, raised, fetches>>

(* ------------------------------------------------------------------ *)
(* OneShotController                                                    *)
(* ------------------------------------------------------------------ *)

\* An on_new_url without the is_set test.
LatchAlwaysOpen == TRUE

\* Line 191: if not self.hit_event.is_set()
LatchOpen == ~hit_event

\* Lines 189-193: on_new_url(url)
OnNewUrl(url) ==
    /\ first_url' = IF LatchOpen THEN sanitize_url(url) ELSE first_url
    /\ hit_event' = (hit_event \/ LatchOpen)

(* ------------------------------------------------------------------ *)
(* OtaCaptor._parser_thread                                             *)
(* ------------------------------------------------------------------ *)

\* A parser without the membership test.
IsNewAlways(url) == TRUE

\* A parser that takes nothing for new once the latch is released.
IsNewUntilHit(url) == url \notin seen /\ ~hit_event

\* Line 252: if url not in self._seen
IsNew(url) == url \notin seen

\* A parser that never downloads.
AfterCallbackNoDownload == "scan"

\* Lines 259-261 follow the callback when auto-download is on; otherwise the
\* for loop goes on to the next match.
AfterCallback == IF auto_download THEN "download" ELSE "scan"

\* A parser without the try/except around the callback.
AfterCallbackPropagated == "failed"

\* Lines 257-258: except Exception: pass
AfterCallbackRaised == AfterCallback

\* Line 246: while not self._stop.is_set()
ParserLoop ==
    /\ Alive /\ pPc = "loop"
    /\ pPc' = IF stopEv THEN "exit" ELSE "get"
    /\ UNCHANGED <<config, proc, stopEv, queue, seen, log_file, url_file, latchVars,
                   readerVars, writerVars, pLine, pMatches, pUrl, mainVars, notified,
                   raised, fetches>>

\* A parser that keeps the line it dequeued.
ParserGetNoRequeue ==
    /\ Alive /\ pPc = "get"
    /\ queue # <<>>
    /\ pLine' = Head(queue)
    /\ queue' = Tail(queue)
    /\ pMatches' = URL_REGEX(LineTexts[Head(queue)])
    /\ pPc' = "scan"
    /\ UNCHANGED <<config, proc, stopEv, seen, log_file, url_file, latchVars,
                   readerVars, writerVars, pUrl, mainVars, notified, raised, fetches>>

\* Lines 247-250: get returns the head of the queue, the line goes back on the
\* queue, and finditer scans it.
ParserGet ==
    /\ Alive /\ pPc = "get"
    /\ queue # <<>>
    /\ pLine' = Head(queue)
    /\ queue' = Append(Tail(queue), Head(queue))
    /\ pMatches' = URL_REGEX(LineTexts[Head(queue)])
    /\ pPc' = "scan"
    /\ UNCHANGED <<config, proc, stopEv, seen, log_file, url_file, latchVars,
                   readerVars, writerVars, pUrl, mainVars, notified, raised, fetches>>

\* Lines 247-248: get times out on an empty queue; continue.
ParserEmpty ==
    /\ Alive /\ pPc = "get"
    /\ queue = <<>>
    /\ pPc' = "loop"
    /\ UNCHANGED <<config, proc, stopEv, queue, seen, log_file, url_file, latchVars,
                   readerVars, writerVars, pLine, pMatches, pUrl, mainVars, notified,
                   raised, fetches>>

\* Lines 250-253: the next match of the line, canonicalized and looked up; a
\* new one enters the dedup set.  With no match left the loop starts over.
ParserScan ==
    /\ Alive /\ pPc = "scan"
    /\ IF pMatches = <<>>
       THEN /\ pPc' = "loop"
            /\ pLine' = 0
            /\ pUrl' = <<>>
            /\ UNCHANGED <<pMatches, seen>>
       ELSE LET url == sanitize_url(Head(pMatches))
            IN  /\ pMatches' = Tail(pMatches)
                /\ pLine' = pLine
                /\ pUrl' = url
                /\ IF IsNew(url)
                   THEN seen' = seen \cup {url} /\ pPc' = "sink"
                   ELSE seen' = seen /\ pPc' = "scan"
    /\ UNCHANGED <<config, proc, stopEv, queue, log_file, url_file, latchVars,
                   readerVars, writerVars, mainVars, notified, raised, fetches>>

\* Line 254: outf.write(url + "\n"); outf.flush()
ParserSink ==
    /\ Alive /\ pPc = "sink"
    /\ url_file' = Append(url_file, pUrl)
    /\ pPc' = "callback"
    /\ UNCHANGED <<config, proc, stopEv, queue, seen, log_file, latchVars, readerVars,
                   writerVars, pLine, pMatches, pUrl, mainVars, notified, raised,
                   fetches>>

\* Line 254 raises OSError: nothing catches it, the thread ends.
ParserSinkFails ==
    /\ Alive /\ pPc = "sink"
    /\ pPc' = "failed"
    /\ UNCHANGED <<config, proc, stopEv, queue, seen, log_file, url_file, latchVars,
                   readerVars, writerVars, pLine, pMatches, pUrl, mainVars, notified,
                   raised, fetches>>

\* Line 256 with no callback registered.
ParserNoCallback ==
    /\ Alive /\ pPc = "callback"
    /\ on_new_url = "None"
    /\ pPc' = AfterCallback
    /\ UNCHANGED <<config, proc, stopEv, queue, seen, log_file, url_file, latchVars,
                   readerVars, writerVars, pLine, pMatches, pUrl, mainVars, notified,
                   raised, fetches>>

\* Lines 256-257: the callback is the controller's on_new_url.
ParserCallbackController ==
    /\ Alive /\ pPc = "callback"
    /\ on_new_url = "controller"
    /\ OnNewUrl(pUrl)
    /\ notified' = Append(notified, pUrl)
    /\ pPc' = AfterCallback
    /\ UNCHANGED <<config, proc, stopEv, queue, seen, log_file, url_file, readerVars,
                   writerVars, pLine, pMatches, pUrl, mainVars, raised, fetches>>

\* Lines 256-257: a callback of the caller's returns.
ParserCallbackReturns ==
    /\ Alive /\ pPc = "callback"
    /\ on_new_url = "callable"
    /\ notified' = Append(notified, pUrl)
    /\ pPc' = AfterCallback
    /\ UNCHANGED <<config, proc, stopEv, queue, seen, log_file, url_file, latchVars,
                   readerVars, writerVars, pLine, pMatches, pUrl, mainVars, raised,
                   fetches>>

\* Lines 256-258: a callback of the caller's raises an Exception.
ParserCallbackRaises ==
    /\ Alive /\ pPc = "callback"
    /\ on_new_url = "callable"
    /\ notified' = Append(notified, pUrl)
    /\ raised' = raised \cup {pUrl}
    /\ pPc' = AfterCallbackRaised
    /\ UNCHANGED <<config, proc, stopEv, queue, seen, log_file, url_file, latchVars,
                   readerVars, writerVars, pLine, pMatches, pUrl, mainVars, fetches>>

\* Lines 259-261 and 157-160: download_with_progress(url, name) is entered.
ParserDownload ==
    /\ Alive /\ pPc = "download"
    /\ fetches' = Append(fetches, [url  |-> sanitize_url(pUrl),
                                   name |-> friendly_name_from_url(pUrl),
                                   by   |-> "parser"])
    /\ pPc' = "fetching"
    /\ UNCHANGED <<config, proc, stopEv, queue, seen, log_file, url_file, latchVars,
                   readerVars, writerVars, pLine, pMatches, pUrl, mainVars, notified,
                   raised>>

\* Lines 160-180: the download ends, saved or failed (the failure is caught
\* inside download_with_progress); the for loop goes on.
ParserFetchReturns ==
    /\ Alive /\ pPc = "fetching"
    /\ pPc' = "scan"
    /\ UNCHANGED <<config, proc, stopEv, queue, seen, log_file, url_file, latchVars,
                   readerVars, writerVars, pLine, pMatches, pUrl, mainVars, notified,
                   raised, fetches>>

(* ------------------------------------------------------------------ *)
(* cmd_oneshot, and the return of cmd_capture                           *)
(* ------------------------------------------------------------------ *)

\* A timeout taken from the command line as it is.
WaitTimeoutUnchecked(a) == a.timeout

\* Line 290: timeout = args.timeout if args.timeout > 0 else 300
WaitTimeoutOf(a) == IF a.timeout > 0 THEN a.timeout ELSE DefaultTimeout

\* Lines 288-291: the probe commands, then the timeout.
MainProbe ==
    /\ mPc = "probe"
    /\ timeout' = WaitTimeoutOf(args)
    /\ mPc' = "wait"
    /\ UNCHANGED <<config, proc, stopEv, queue, seen, log_file, url_file, latchVars,
                   readerVars, writerVars, parserVars, waitResult, notified, raised,
                   fetches>>

\* Lines 292 and 294-301: wait returns True, the event is set; then
\* --auto-download, or the answer to the prompt, decides on the download.
MainWaitHit ==
    /\ mPc = "wait"
    /\ hit_event
    /\ waitResult' = "hit"
    /\ \E yes \in BOOLEAN :
        mPc' = IF args.auto_download \/ yes THEN "download" ELSE "stop"
    /\ UNCHANGED <<config, proc, stopEv, queue, seen, log_file, url_file, latchVars,
                   readerVars, writerVars, parserVars, timeout, notified, raised,
                   fetches>>

\* A cmd_oneshot that returns on timeout without stopping the session.
MainWaitTimeoutNoStop ==
    /\ mPc = "wait"
    /\ ~hit_event
    /\ waitResult' = "timeout"
    /\ mPc' = "returned"
    /\ UNCHANGED <<config, proc, stopEv, queue, seen, log_file, url_file, latchVars,
                   readerVars, writerVars, parserVars, timeout, notified, raised,
                   fetches>>

\* Lines 292-293: wait returns False when the timeout has run out.
MainWaitTimeout ==
    /\ mPc = "wait"
    /\ ~hit_event
    /\ waitResult' = "timeout"
    /\ mPc' = "stop"
    /\ UNCHANGED <<config, proc, stopEv, queue, seen, log_file, url_file, latchVars,
                   readerVars, writerVars, parserVars, timeout, notified, raised,
                   fetches>>

\* Lines 296-297 and 302-303: download_with_progress(first_url, name), which
\* returns whether the download succeeds or fails.
MainDownload ==
    /\ mPc = "download"
    /\ fetches' = Append(fetches, [url  |-> sanitize_url(first_url),
                                   name |-> friendly_name_from_url(first_url),
                                   by   |-> "main"])
    /\ mPc' = "stop"
    /\ UNCHANGED <<config, proc, stopEv, queue, seen, log_file, url_file, latchVars,
                   readerVars, writerVars, parserVars, timeout, waitResult, notified,
                   raised>>

\* Lines 293 and 304: cap.stop(); cmd_oneshot returns.
MainStop ==
    /\ mPc = "stop"
    /\ stop
    /\ mPc' = "returned"
    /\ UNCHANGED <<config, queue, seen, log_file, url_file, latchVars, readerVars,
                   writerVars, parserVars, timeout, waitResult, notified, raised,
                   fetches>>

\* Lines 328-333: the main thread is through (cmd_oneshot has returned, or
\* start() has returned to cmd_capture): the interpreter exits and the daemon
\* threads go with it.
MainExit ==
    /\ \/ mPc = "returned"
       \/ cmd = "capture" /\ mPc = "in_start" /\ sPc = "done"
    /\ mPc' = "exited"
    /\ UNCHANGED <<config, proc, stopEv, queue, seen, log_file, url_file, latchVars,
                   readerVars, writerVars, parserVars, timeout, waitResult, notified,
                   raised, fetches>>

(* ------------------------------------------------------------------ *)
(* Specifications                                                       *)
(* ------------------------------------------------------------------ *)

Process == ProcQuits \/ ProcDies

Reader ==
    \/ StartPopen \/ StartThreads
    \/ ReaderPoll \/ ReaderReadline \/ ReaderEof \/ ReaderInterrupt \/ ReaderFinally

Writer == WriterLoop \/ WriterGet \/ WriterEmpty \/ WriterWrite \/ WriterWriteFails

Parser ==
    \/ ParserLoop \/ ParserGet \/ ParserEmpty \/ ParserScan
    \/ ParserSink \/ ParserSinkFails
    \/ ParserNoCallback \/ ParserCallbackController
    \/ ParserCallbackReturns \/ ParserCallbackRaises
    \/ ParserDownload \/ ParserFetchReturns

Main ==
    \/ MainProbe \/ MainWaitHit \/ MainWaitTimeout \/ MainDownload \/ MainStop
    \/ MainExit

Next == Process \/ Reader \/ Writer \/ Parser \/ Main

Spec == Init /\ [][Next]_vars

(* ------------------------------------------------------------------ *)
(* Sessions one after the other                                         *)
(* ------------------------------------------------------------------ *)

\* A caller of the class whose session is over (start() has returned, both
\* workers have ended) constructs the next OtaCaptor with the same arguments
\* and enters its start(): __init__ makes a new queue, stop flag and dedup set
\* and opens new sink files (their names carry the time of construction).
NewSession ==
    /\ cmd = "api"
    /\ sPc = "done"
    /\ wPc \in {"exit", "failed"}
    /\ pPc \in {"exit", "failed"}
    /\ past' = past \cup seen
    /\ proc' = "None"
    /\ stopEv' = FALSE
    /\ queue' = <<>>
    /\ seen' = FreshSeen(seen)
    /\ log_file' = <<>>
    /\ url_file' = <<>>
    /\ sPc' = "setup"
    /\ wPc' = "unstarted"
    /\ wLine' = 0
    /\ pPc' = "unstarted"
    /\ pLine' = 0
    /\ pMatches' = <<>>
    /\ pUrl' = <<>>
    /\ readLines' = <<>>
    /\ notified' = <<>>
    /\ raised' = {}
    /\ fetches' = <<>>
    /\ UNCHANGED <<cmd, args, auto_download, on_new_url, latchVars, mainVars>>

\* The callback of a caller's own session is the caller's callable.
ParserOfCaller ==
    \/ ParserLoop \/ ParserGet \/ ParserEmpty \/ ParserScan
    \/ ParserSink \/ ParserSinkFails
    \/ ParserCallbackReturns \/ ParserCallbackRaises
    \/ ParserDownload \/ ParserFetchReturns

SessionsInit == Init /\ cmd = "api"

SessionsNext == Process \/ Reader \/ Writer \/ ParserOfCaller \/ NewSession

SessionsSpec == SessionsInit /\ [][SessionsNext]_vars

(* ------------------------------------------------------------------ *)
(* Properties                                                           *)
(* ------------------------------------------------------------------ *)

Range(q) == {q[i] : i \in 1..Len(q)}

Count(q, x) == Cardinality({i \in 1..Len(q) : q[i] = x})

IsPrefix(p, q) == Len(p) <= Len(q) /\ SubSeq(q, 1, Len(p)) = p

\* The canonical matches of a line.
CanonicalOf(id) == {sanitize_url(m) : m \in Range(URL_REGEX(LineTexts[id]))}

\* How many raw matches of the lines read canonicalize to u.
RECURSIVE TimesFed(_, _)
TimesFed(q, u) ==
    IF q = <<>> THEN 0
    ELSE Count([i \in 1..Len(URL_REGEX(LineTexts[Head(q)])) |->
                    sanitize_url(URL_REGEX(LineTexts[Head(q)])[i])], u)
         + TimesFed(Tail(q), u)

\* Both worker threads are between lines, and no sink write has failed.
WorkersIdle == wPc \in {"loop", "get", "exit"} /\ pPc \in {"loop", "get", "exit"}

\* Every line read has left the queue and is in the raw sink.
Drained == WorkersIdle /\ queue = <<>> /\ Len(log_file) = Len(readLines)

\* C1: the raw sink content is always a prefix of the sequence of lines the
\* reader read: arrival order, no duplicate, no gap.
C1_RawSinkIsPrefixOfRead == IsPrefix(log_file, readLines)

\* C2: once the lines are through the pipeline, a canonical match that was fed
\* twice has exactly one line in the matches sink and, with a callback
\* registered, exactly one notification.
C2_FedTwiceEmittedOnce ==
    Drained =>
        \A u \in UNION {CanonicalOf(id) : id \in Range(readLines)} :
            TimesFed(readLines, u) >= 2 =>
                /\ Count(url_file, u) = 1
                /\ on_new_url # "None" => Count(notified, u) = 1

\* C3: every canonical match has at most one line in the matches sink and at
\* most one notification, every line of the sink is in the dedup set, and the
\* dedup set only grows.
C3_NeverEmittedTwice ==
    /\ [](\A u \in seen \cup Range(url_file) \cup Range(notified) :
            /\ Count(url_file, u) <= 1
            /\ Count(notified, u) <= 1
            /\ u \in seen)
    /\ [][seen \subseteq seen']_vars

\* The parser has visited both matches of the line that holds one URL twice,
\* and the sink holds that URL once.
C3_Witness ==
    /\ pPc = "scan" /\ pLine = 3 /\ pMatches = <<>>
    /\ url_file = <<UrlZipQ>>

\* C4: the latch is write-once: the step that sets hit_event records the
\* canonical URL of that notification, and from then on hit_event stays set
\* and first_url stays what it is.
C4_LatchWriteOnce ==
    [][/\ hit_event => hit_event' /\ first_url' = first_url
       /\ ~hit_event /\ hit_event' => first_url' = sanitize_url(pUrl) /\ first_url' # <<>>]_vars

\* The controller has been notified a second time, of another URL, and still
\* holds the first.
C4_Witness ==
    /\ hit_event
    /\ Len(notified) = 2
    /\ first_url = notified[1]
    /\ notified[2] # first_url

\* C5: the wait never blocks for good and never raises: while the main thread
\* waits, whatever the session and the source have done, the timeout is
\* positive and a return of the wait is enabled (with the match when the latch
\* is set, timed out when it is not), and the step that leaves the wait
\* returns one of those two outcomes: the match only with the latch set and a
\* URL recorded.
C5_WaitReturns ==
    /\ [](mPc = "wait" =>
            /\ timeout > 0
            /\ ENABLED (MainWaitHit \/ MainWaitTimeout))
    /\ [][mPc = "wait" /\ mPc' # "wait" =>
            \/ waitResult' = "hit" /\ hit_event /\ first_url # <<>>
                    /\ mPc' \in {"download", "stop"}
            \/ waitResult' = "timeout" /\ mPc' = "stop"]_vars

\* The source closed and start() stopped the session before any match arrived,
\* and the wait has returned timed out.
C5_Witness ==
    /\ waitResult = "timeout" /\ mPc = "stop"
    /\ sPc = "done" /\ stopEv
    /\ url_file = <<>>

\* C6: when the writer thread has left its loop, the raw sink lacks at most one
\* (the in-flight) line of those the reader put on the queue.
C6_NoQueuedLineLost == wPc = "exit" => Len(readLines) - Len(log_file) <= 1

\* C7: once a stop() has returned, the external process, if start() has
\* created it, has been told to terminate.
C7_StopClosesSource == stopEv /\ proc # "None" => proc # "running"

\* Applying stop() to the session state after a stop() changes nothing.
StopIdempotentHere ==
    /\ StopFlagAfterStop(StopFlagAfterStop(stopEv)) = StopFlagAfterStop(stopEv)
    /\ ProcAfterStop(ProcAfterStop(proc)) = ProcAfterStop(proc)

\* A step that is a call of stop(), by start() or by cmd_oneshot.
IsStopStep ==
    \/ sPc = "finally" /\ sPc' = "done"
    \/ mPc = "stop" /\ mPc' = "returned"

\* C8: stop() is idempotent, a stop() on a stopped session leaves the session
\* as it is, nothing clears the stop flag, and a worker thread that has left
\* its loop stays out of it.
C8_StopIdempotentTerminal ==
    /\ []StopIdempotentHere
    /\ [][IsStopStep => stopEv']_vars
    /\ [][IsStopStep /\ stopEv =>
            UNCHANGED <<stopEv, proc, queue, seen, log_file, url_file>>]_vars
    /\ [][stopEv => stopEv']_vars
    /\ [][(wPc \in {"exit", "failed"}) => UNCHANGED wPc]_vars
    /\ [][(pPc \in {"exit", "failed"}) => UNCHANGED pPc]_vars

\* Both start() and cmd_oneshot have called stop().
C8_Witness == sPc = "done" /\ mPc = "returned" /\ stopEv

\* C9: the step in which the callback raises leaves the parser running, at the
\* download of that match when auto-download is on and at the next match
\* otherwise, with the match in the dedup set and in the matches sink; and a
\* match whose callback raised is downloaded once the parser is past it.
C9_CallbackFailureSwallowed ==
    /\ [][raised' # raised =>
            /\ pPc' = IF auto_download THEN "download" ELSE "scan"
            /\ pUrl' = pUrl /\ pUrl \in raised'
            /\ pUrl \in seen' /\ Count(url_file', pUrl) = 1]_vars
    /\ [](\A u \in raised :
            auto_download /\ ~(pPc = "download" /\ pUrl = u) =>
                \E i \in 1..Len(fetches) : fetches[i].url = u /\ fetches[i].by = "parser")
    /\ [](pPc = "failed" => pUrl \notin Range(notified))

\* The callback raised for the first match; the parser went on to download
\* it, to detect a match in a later line and to notify that one too.
C9_Witness ==
    /\ Len(notified) = 2
    /\ notified[1] \in raised
    /\ notified[2] # notified[1]
    /\ auto_download
    /\ Len(fetches) = 2

\* C10: a failed write to a sink does not end the parser thread, and every
\* new match the parser is through with has been given to the callback, when
\* there is one.
C10_SinkFailureKeepsCallback ==
    /\ pPc # "failed"
    /\ on_new_url # "None" =>
            \A u \in seen :
                \/ u \in Range(notified)
                \/ u = pUrl /\ pPc \in {"sink", "callback"}

\* How far _writer_thread is from the end of its loop once the stop flag is set.
WriterRank ==
    CASE wPc = "get"   -> 3
      [] wPc = "write" -> 2
      [] wPc = "loop"  -> 1
      [] wPc = "unstarted" -> 2
      [] OTHER         -> 0

\* The same for _parser_thread: every match still to visit costs at most five
\* steps (scan, sink, callback, download, fetch), and a line has fewer matches
\* than characters.
MaxLineLen ==
    LET longest == CHOOSE i \in LineIds : \A j \in LineIds : Len(LineTexts[j]) <= Len(LineTexts[i])
    IN  Len(LineTexts[longest])

ParserRank ==
    CASE pPc = "get"      -> 5 * MaxLineLen + 3
      [] pPc = "scan"     -> 5 * Len(pMatches) + 2
      [] pPc = "sink"     -> 5 * Len(pMatches) + 6
      [] pPc = "callback" -> 5 * Len(pMatches) + 5
      [] pPc = "download" -> 5 * Len(pMatches) + 4
      [] pPc = "fetching" -> 5 * Len(pMatches) + 3
      [] pPc = "loop"     -> 1
      [] pPc = "unstarted" -> 2
      [] OTHER            -> 0

\* _parser_thread is not blocked: the step its position calls for can be taken
\* (queue.get either returns a line or times out; scanning a taken line and
\* calling the fetch wait for nothing).
ParserCanStep ==
    CASE pPc = "loop"     -> ENABLED ParserLoop
      [] pPc = "get"      -> queue # <<>> \/ ENABLED ParserEmpty
      [] pPc = "sink"     -> ENABLED (ParserSink \/ ParserSinkFails)
      [] pPc = "callback" -> ENABLED (ParserNoCallback \/ ParserCallbackController
                                        \/ ParserCallbackReturns \/ ParserCallbackRaises)
      [] pPc \in {"scan", "download"} -> TRUE
      [] pPc = "fetching" -> ENABLED ParserFetchReturns
      [] OTHER            -> FALSE

C12_StopNeitherWaitsNorInterrupts ==
    /\ sPc = "finally" /\ Alive => ENABLED ReaderFinally
    /\ mPc = "stop" => ENABLED MainStop
    /\ pPc = "fetching" => ENABLED ParserFetchReturns

\* C13: a new session starts with an empty dedup set, and a url that an
\* earlier session recorded is new to it: when the parser scans it for the first
\* time in this session it is inserted and goes on to the sink and the callback.
C13_SessionsShareNoDedupMemory ==
    /\ [][past' # past => seen' = {}]_vars
    /\ [][/\ pPc = "scan" /\ pMatches # <<>> /\ parserVars' # parserVars
          /\ sanitize_url(Head(pMatches)) \in past
          /\ sanitize_url(Head(pMatches)) \notin seen
          => /\ pPc' = "sink"
             /\ pUrl' = sanitize_url(Head(pMatches))
             /\ pUrl' \in seen']_vars
    /\ [][pPc = "sink" /\ pPc' = "callback" => url_file' = Append(url_file, pUrl)]_vars
    /\ [][pPc = "callback" /\ pPc' # pPc => notified' = Append(notified, pUrl)]_vars

\* The second session has written and notified a url that the first recorded.
C13_Witness ==
    \E u \in past : u \in seen /\ u \in Range(url_file) /\ u \in Range(notified)

\* C14: with the latch released, a match whose canonical url is not yet in the
\* dedup set is still inserted and taken to the sink step, the sink step still
\* appends it to the matches sink, and none of these steps changes the latch.
C14_RecordingGoesOnAfterLatch ==
    /\ [][/\ hit_event /\ pPc = "scan" /\ pMatches # <<>> /\ parserVars' # parserVars
          /\ sanitize_url(Head(pMatches)) \notin seen
          => /\ seen' = seen \cup {sanitize_url(Head(pMatches))}
             /\ pUrl' = sanitize_url(Head(pMatches))
             /\ pPc' = "sink"
             /\ UNCHANGED latchVars]_vars
    /\ [][hit_event /\ pPc = "sink" /\ pPc' = "callback"
          => url_file' = Append(url_file, pUrl) /\ UNCHANGED latchVars]_vars
    /\ [][hit_event => UNCHANGED latchVars]_vars

\* The latch holds the first match, and a second, different match has been
\* recorded after it.
C14_Witness ==
    /\ hit_event
    /\ Len(url_file) = 2
    /\ first_url = url_file[1]
    /\ url_file[2] # first_url
    /\ url_file[2] \in seen

RECURSIVE BeforeQuery(_)
\* The part of a url before its query string.
BeforeQuery(s) ==
    IF s = <<>> \/ Head(s) = "?" THEN <<>> ELSE <<Head(s)>> \o BeforeQuery(Tail(s))

\* The final path segment before any query string when it ends in .zip, and
\* update.zip otherwise.
SegmentName(url) ==
    LET seg == LastSegment(BeforeQuery(url))
    IN  IF EndsWith(seg, LitDotZip) THEN seg ELSE LitUpdate

\* C15: every fetch of a url without a hex-hash segment is given the final path
\* segment before the query string as its file name when that segment ends in
\* .zip, and update.zip otherwise.
C15_NameIsSegmentBeforeQuery ==
    \A i \in 1..Len(fetches) :
        PackageSearch(fetches[i].url, 1) = <<>>
            => fetches[i].name = SegmentName(fetches[i].url)

\* The fetches that _parser_thread started.
ParserFetches == SelectSeq(fetches, LAMBDA f : f.by = "parser")

\* C16: for every new match the parser inserts into the dedup set, then appends
\* to the matches sink, then invokes the callback, then (with auto-download)
\* calls the fetch once with the url and its derived file name, and is done
\* with the match before it turns to the next: the dedup set is ahead of the
\* sink by the match at the sink step only, the sink is ahead of the callbacks
\* by the match at the callback step only, and ahead of the fetches by the
\* match at the callback or download step only; so sink lines, callbacks and
\* fetches come in the order of discovery.
C16_StepsPerMatchInOrder ==
    /\ Range(url_file) \subseteq seen
    /\ seen \ Range(url_file) \subseteq (IF pPc \in {"sink", "failed"} THEN {pUrl} ELSE {})
    /\ \A i, j \in 1..Len(url_file) : url_file[i] = url_file[j] => i = j
    /\ IF on_new_url = "None" THEN notified = <<>>
       ELSE IF pPc = "callback" THEN url_file = Append(notified, pUrl)
       ELSE notified = url_file
    /\ IF ~auto_download THEN ParserFetches = <<>>
       ELSE /\ Len(ParserFetches) <= Len(url_file)
            /\ \A i \in 1..Len(ParserFetches) :
                 /\ ParserFetches[i].url = url_file[i]
                 /\ ParserFetches[i].name = friendly_name_from_url(url_file[i])
            /\ IF pPc \in {"callback", "download"}
               THEN Len(url_file) = Len(ParserFetches) + 1 /\ url_file[Len(url_file)] = pUrl
               ELSE Len(url_file) = Len(ParserFetches)
    /\ pPc = "fetching" => ParserFetches # <<>> /\ ParserFetches[Len(ParserFetches)].url = pUrl

\* Two matches were recorded, notified and fetched, each in turn.
C16_Witness ==
    /\ auto_download /\ on_new_url = "callable"
    /\ Len(url_file) = 2 /\ Len(notified) = 2 /\ Len(ParserFetches) = 2
    /\ pPc = "fetching"

\* The parser has a line in hand.
ParserOnLine == pPc \in {"scan", "sink", "callback", "download", "fetching"}

C18_LatchAgreesWithSession ==
    hit_event =>
        /\ first_url # <<>>
        /\ first_url \in seen
        /\ url_file # <<>>
        /\ url_file[1] = first_url

\* The latch was released by the first of two recorded matches.
C18_Witness ==
    /\ hit_event /\ cmd = "oneshot"
    /\ Len(url_file) = 2 /\ Len(notified) = 2
    /\ first_url = notified[1]

\* C19: once the stop flag is set, neither worker comes (back) to its
\* queue.get: a worker that had passed the loop test dequeues one more line at
\* most, the writer writes it, the parser scans it, and the next loop test ends
\* the thread; a thread that has ended appends to no sink and invokes no
\* callback.
C19_ActivityAfterStopBounded ==
    /\ [][stopEv /\ wPc' = "get" => wPc = "get"]_vars
    /\ [][stopEv /\ pPc' = "get" => pPc = "get"]_vars
    /\ [][stopEv /\ queue' # queue /\ wLine' # wLine => wPc = "get" /\ wPc' = "write"]_vars
    /\ [][stopEv /\ pLine' # pLine /\ pLine' # 0 => pPc = "get" /\ pPc' = "scan"]_vars
    /\ [][log_file' # log_file => wPc = "write" /\ wPc' = "loop"]_vars
    /\ [][url_file' # url_file => pPc = "sink"]_vars
    /\ [][notified' # notified => pPc = "callback"]_vars
    /\ [][(wPc \in {"exit", "failed"}) => UNCHANGED <<wPc, log_file>>]_vars
    /\ [][(pPc \in {"exit", "failed"}) => UNCHANGED <<pPc, url_file, notified, latchVars>>]_vars

\* The stop flag is set while both workers have a line in hand: the writer is
\* about to write it and the parser about to append a match of it.
C19_Witness ==
    /\ stopEv
    /\ wPc = "write" /\ wLine # 0
    /\ pPc = "sink"

\* C20: cmd_oneshot fetches at most once, only the latch's first url under its
\* derived name, and only after the wait returned with the latch released;
\* and it returns only through stop().
C20_OneshotFetchesOnceAndStops ==
    /\ [](cmd = "oneshot" =>
            /\ Len(fetches) <= 1
            /\ \A i \in 1..Len(fetches) :
                 /\ fetches[i].by = "main"
                 /\ waitResult = "hit" /\ hit_event
                 /\ fetches[i].url = first_url
                 /\ fetches[i].name = friendly_name_from_url(first_url)
            /\ (waitResult = "timeout" => fetches = <<>>)
            /\ (mPc \in {"returned", "exited"} => stopEv))
    /\ [][cmd = "oneshot" /\ mPc' = "returned" /\ mPc # "returned"
            => mPc = "stop" /\ stopEv' /\ proc' = ProcAfterStop(proc)]_vars
    /\ [][cmd = "oneshot" /\ fetches' # fetches => mPc = "download" /\ mPc' = "stop"]_vars

\* cmd_oneshot has downloaded the first url and returned.
C20_Witness ==
    /\ cmd = "oneshot" /\ mPc = "returned"
    /\ waitResult = "hit"
    /\ Len(fetches) = 1 /\ fetches[1].url = first_url

====
